---- MODULE Spec2Model ----
(***************************************************************************)
(* Frenetic: stackful coroutines (src/src/lib.rs).                         *)
(*                                                                         *)
(* One parent control flow and one child control flow alternate on a       *)
(* single thread.  The parent runs Coroutine::new, Generator::resume and   *)
(* Drop::drop; the child runs the trampoline `callback`, the user closure  *)
(* and Control::yield.  Control is exchanged by jump_init, jump_swap and   *)
(* jump_into, whose LLVM source (src/jump.ll) is not part of the sources   *)
(* at hand: they are modelled from the specification's section 4.1.        *)
(***************************************************************************)
EXTENDS Integers, Sequences, FiniteSets, TLC

(* ----------------------------- bounds --------------------------------- *)
\* Yielded values are 1..MaxY, returned values 1..MaxR.
MaxY == 2
MaxR == 2
\* A closure performs at most MaxYields yields.
MaxYields == 2
\* The driver calls resume at most MaxResumes times.
MaxResumes == 3
\* Stack buffers start at StackBase + 0..MaxBaseOff and are
\* STACK_MINIMUM - MaxLenUnder .. STACK_MINIMUM + MaxLenOver bytes long.
MaxBaseOff == 15
MaxLenUnder == 1
MaxLenOver == 1
\* Lowest address a stack buffer is placed at.
StackBase == 65536

(* ------------------------ program constants --------------------------- *)
STACK_ALIGNMENT == 16
STACK_MINIMUM == 4096

(* ------------------------------ values -------------------------------- *)
Null == 0
YVals == 1..MaxY
RVals == 1..MaxR

\* GeneratorState<Y, R>, plus the content of a MaybeUninit::uninit() slot.
Uninit == <<"Uninit", 0>>
GeneratorState == ({"Yielded"} \X YVals) \cup ({"Complete"} \X RVals)

\* Result<Finished<R>, Canceled>
Canceled == <<"Err", 0>>
ClosureResults == ({"Ok"} \X RVals) \cup {Canceled}

\* A register save slot ([*mut c_void; 5]): the saved program position, the
\* closure position held in callee-saved registers, and whether the saved
\* context is still unused (a context is consumed by jumping into it).
NoSlot == [pc |-> "none", k |-> 0, live |-> FALSE]

NoCtx == [parent |-> NoSlot, child |-> NoSlot, arg |-> Null, alloc |-> FALSE]
NoStack == [base |-> 0, len |-> 0]
NoClosure == [ys |-> <<>>, ret |-> Canceled, onCancel |-> "none"]

\* The closures the driver passes to Coroutine::new: yield ys[1], ys[2], ...
\* in order and then return ret.  When a yield returns Err(Canceled) the
\* closure either sets its flag and propagates the error ("propagate", as
\* the closure of tests::cancel does), or ignores it and carries on
\* ("continue").
SeqsUpTo(S, n) == UNION {[1..m -> S] : m \in 0..n}
Closures ==
    [ys : SeqsUpTo(YVals, MaxYields), ret : ClosureResults,
     onCancel : {"propagate", "continue"}]

StackBases == StackBase .. (StackBase + MaxBaseOff)
StackLens == (STACK_MINIMUM - MaxLenUnder) .. (STACK_MINIMUM + MaxLenOver)

VARIABLES
    running,      \* "parent", "child", or "crashed" (the process is gone)
    ppc,          \* the parent's position
    cpc,          \* the child's position
    k,            \* closure: number of yields it has got past
    cor,          \* Coroutine.0 : "None" or "Some"
    ctx,          \* the Context on the child stack
    initslot,     \* the save slot jump_init hands to the trampoline as `p`
    stack,        \* Coroutine::new: the `stack` slice (base, len)
    top,          \* Coroutine::new: the local `top`
    sp,           \* the stack pointer the trampoline is entered with
    func,         \* Coroutine::new: the closure argument `func`
    fncRef,       \* Coroutine::new: the local `fnc` (Option<&mut F>)
    fnc,          \* callback: the closure slot on the child stack
    arg,          \* resume: the local `arg` (the transfer slot)
    argAddr,      \* the address of the live `arg`, Null outside resume
    resumes,      \* number of resume calls so far
    yarg,         \* yield: its argument
    yret,         \* yield: its return value, "Ok" or "Err"
    ret,          \* callback: the value the closure returned
    cancelled,    \* the flag the closure sets in its Err branch
    sliceBy,      \* what started the child's current slice
    dropKind,     \* the state the handle was dropped in
    results,      \* history: what each resume returned
    slices,       \* history: how each child slice ended, and who started it
    yieldLog,     \* history: each yield call that returned
    writes,       \* history: each write through Context.arg
    closureCalls, \* history: number of invocations of the closure
    stackWritten  \* history: some byte of the stack buffer was written

vars ==
    <<running, ppc, cpc, k, cor, ctx, initslot, stack, top, sp, func, fncRef,
      fnc, arg, argAddr, resumes, yarg, yret, ret, cancelled, sliceBy,
      dropKind, results, slices, yieldLog, writes, closureCalls, stackWritten>>

\* Groups of variables, for UNCHANGED.
newVars == <<stack, top, func, fncRef>>
resumeVars == <<arg, argAddr, resumes, results>>
closureVars == <<k, yarg, yret, ret, cancelled, closureCalls>>
histVars == <<slices, yieldLog, writes>>

Init ==
    /\ running = "parent"
    /\ ppc = "start"
    /\ cpc = "none"
    /\ k = 0
    /\ cor = "None"
    /\ ctx = NoCtx
    /\ initslot = NoSlot
    /\ stack = NoStack
    /\ top = 0
    /\ sp = 0
    /\ func = NoClosure
    /\ fncRef = "None"
    /\ fnc = NoClosure
    /\ arg = Uninit
    /\ argAddr = Null
    /\ resumes = 0
    /\ yarg = 0
    /\ yret = "none"
    /\ ret = Canceled
    /\ cancelled = FALSE
    /\ sliceBy = "none"
    /\ dropKind = "none"
    /\ results = <<>>
    /\ slices = <<>>
    /\ yieldLog = <<>>
    /\ writes = <<>>
    /\ closureCalls = 0
    /\ stackWritten = FALSE

(* ------------------------ context switching --------------------------- *)
\* jump_swap / jump_into hand the processor to the context saved in a slot.
\* A slot that is live holds the position its side suspended at.  A slot
\* that was already jumped into (or never written) holds a dead frame:
\* entering it is undefined, and the outcomes are a crash or a re-run from
\* the stale position, with the closure position either the value saved in
\* the slot's registers or the value left in stack memory.
SwitchOutcomes(slot, kmem) ==
    IF slot.live
    THEN {[crash |-> FALSE, pc |-> slot.pc, k |-> slot.k]}
    ELSE {[crash |-> TRUE, pc |-> "none", k |-> 0]}
         \cup (IF slot.pc = "none" THEN {}
               ELSE {[crash |-> FALSE, pc |-> slot.pc, k |-> kk] :
                        kk \in {slot.k, kmem}})

Saved(pc, kk) == [pc |-> pc, k |-> kk, live |-> TRUE]
Consumed(slot) == [slot EXCEPT !.live = FALSE]

(* --------------------------- Coroutine::new --------------------------- *)
\* Mutant: the assertion demands more than STACK_MINIMUM bytes.
AssertStackLenStrict(len) == len > STACK_MINIMUM

\* assert!(stack.len() >= STACK_MINIMUM)
AssertStackLen(len) == len >= STACK_MINIMUM

\* <*mut u8>::align_offset: the number of bytes to ADD to p to align it.
align_offset(p, a) == (a - (p % a)) % a

\* let top = stack.as_mut_ptr().add(stack.len());
\* let top = top.sub(top.align_offset(STACK_ALIGNMENT));
AlignedTop(base, len) ==
    LET t == base + len
    IN  t - align_offset(t, STACK_ALIGNMENT)

\* Entry of Coroutine::new up to and including the assertion.
New(b, l, f) ==
    /\ running = "parent"
    /\ ppc = "start"
    /\ stack' = [base |-> b, len |-> l]
    /\ func' = f
    /\ cor' = "None"
    /\ fncRef' = "None"
    /\ ppc' = IF AssertStackLen(l) THEN "new_top" ELSE "panicked"
    /\ UNCHANGED <<running, cpc, ctx, initslot, top, sp, fnc, sliceBy,
                   dropKind, stackWritten>>
    /\ UNCHANGED <<resumeVars, closureVars, histVars>>

\* The driver's call Coroutine::new(&mut stack, closure), for every stack
\* and closure within the bounds.
NewCall ==
    /\ ppc = "start"
    /\ \E b \in StackBases, l \in StackLens, f \in Closures : New(b, l, f)

NewTop ==
    /\ running = "parent"
    /\ ppc = "new_top"
    /\ top' = AlignedTop(stack.base, stack.len)
    /\ ppc' = "new_init"
    /\ UNCHANGED <<running, cpc, cor, ctx, initslot, stack, sp, func, fncRef,
                   fnc, sliceBy, dropKind, stackWritten>>
    /\ UNCHANGED <<resumeVars, closureVars, histVars>>

\* jump_init builds the first frame at `t`, saves the caller and enters the
\* trampoline on the new stack.  `t` must be 16-byte aligned; entering with
\* another stack pointer is outside the ABI, and either goes unnoticed or
\* faults.
InitOutcomes(t) ==
    {"enter"} \cup (IF t % STACK_ALIGNMENT # 0 THEN {"fault"} ELSE {})

\* Lines 237-242: jump_init(top, &mut cor, &mut fnc, callback)
JumpInit ==
    /\ running = "parent"
    /\ ppc = "new_init"
    /\ stackWritten' = TRUE
    /\ sp' = top
    /\ initslot' = Saved("new_store", 0)
    /\ \E o \in InitOutcomes(top) :
          /\ running' = IF o = "fault" THEN "crashed" ELSE "child"
          /\ cpc' = IF o = "fault" THEN cpc ELSE "cb_entry"
    /\ UNCHANGED <<ppc, cor, ctx, fnc, sliceBy, dropKind>>
    /\ UNCHANGED <<newVars, resumeVars, closureVars, histVars>>

(* ------------------------- callback (trampoline) ---------------------- *)
\* let mut ctx = MaybeUninit::zeroed().assume_init();
ZeroedCtx == [parent |-> NoSlot, child |-> NoSlot, arg |-> Null, alloc |-> TRUE]

\* Lines 173-184: allocate the Context and the closure slot on the new
\* stack and publish both through the incoming pointers.
CallbackPublish ==
    /\ running = "child"
    /\ cpc = "cb_entry"
    /\ ctx' = ZeroedCtx
    /\ fnc' = NoClosure
    /\ cor' = "Some"
    /\ fncRef' = "Some"
    /\ sp' = 0
    /\ cpc' = "cb_handback"
    /\ UNCHANGED <<running, ppc, initslot, stack, top, func, sliceBy,
                   dropKind, stackWritten>>
    /\ UNCHANGED <<resumeVars, closureVars, histVars>>

\* The parent side of a switch: control continues where `slot` says.
EnterParent(slot) ==
    \E o \in SwitchOutcomes(slot, 0) :
        /\ running' = IF o.crash THEN "crashed" ELSE "parent"
        /\ ppc' = IF o.crash THEN ppc ELSE o.pc

\* The child side of a switch: control continues where `slot` says.
EnterChild(slot) ==
    \E o \in SwitchOutcomes(slot, k) :
        /\ running' = IF o.crash THEN "crashed" ELSE "child"
        /\ cpc' = IF o.crash THEN cpc ELSE o.pc
        /\ k' = IF o.crash THEN k ELSE o.k

\* Line 189: jump_swap(ctx.child.as_mut_ptr(), p), the hand-back that ends
\* the construction phase.
CallbackHandback ==
    /\ running = "child"
    /\ cpc = "cb_handback"
    /\ ctx' = [ctx EXCEPT !.child = Saved("cb_call", 0)]
    /\ initslot' = Consumed(initslot)
    /\ EnterParent(initslot)
    /\ UNCHANGED <<cpc, cor, sp, fnc, sliceBy, dropKind, stackWritten>>
    /\ UNCHANGED <<newVars, resumeVars, closureVars, histVars>>

\* Mutant: Coroutine::new returns without moving the closure into its slot.
NewStoreForgets ==
    /\ running = "parent"
    /\ ppc = "new_store"
    /\ ppc' = IF fncRef = "Some" THEN "idle" ELSE "panicked"
    /\ func' = NoClosure
    /\ fncRef' = "None"
    /\ stack' = NoStack
    /\ top' = 0
    /\ UNCHANGED <<running, cpc, cor, ctx, initslot, sp, fnc, sliceBy,
                   dropKind, stackWritten>>
    /\ UNCHANGED <<resumeVars, closureVars, histVars>>

\* Lines 246-248: *fnc.unwrap() = func; cor
NewStore ==
    /\ running = "parent"
    /\ ppc = "new_store"
    /\ IF fncRef = "Some"
       THEN /\ fnc' = func
            /\ ppc' = "idle"
       ELSE /\ fnc' = fnc
            /\ ppc' = "panicked"
    /\ func' = NoClosure
    /\ fncRef' = "None"
    /\ stack' = NoStack
    /\ top' = 0
    /\ UNCHANGED <<running, cpc, cor, ctx, initslot, sp, sliceBy, dropKind,
                   stackWritten>>
    /\ UNCHANGED <<resumeVars, closureVars, histVars>>

\* Line 193: fnc(Control(&mut ctx)), the invocation of the closure.
CallbackCall ==
    /\ running = "child"
    /\ cpc = "cb_call"
    /\ closureCalls' = closureCalls + 1
    /\ IF fnc = NoClosure
       THEN running' = "crashed" /\ cpc' = cpc
       ELSE running' = running /\ cpc' = "closure"
    /\ UNCHANGED <<ppc, k, cor, ctx, initslot, sp, fnc, sliceBy, dropKind,
                   stackWritten, yarg, yret, ret, cancelled>>
    /\ UNCHANGED <<newVars, resumeVars, histVars>>

\* A store through Context.arg.  A store through null faults; a store
\* through the address of the live transfer slot fills it; a store through
\* the address of a transfer slot whose frame is gone hits parent stack
\* memory that is no longer the slot.
WriteArg(val) ==
    /\ writes' = Append(writes, [ptr |-> ctx.arg, val |-> val, live |-> argAddr])
    /\ arg' = IF ctx.arg # Null /\ ctx.arg = argAddr THEN val ELSE arg
    /\ running' = IF ctx.arg = Null THEN "crashed" ELSE running

\* GeneratorState::Complete(r.0)
CompleteValue(r) == <<"Complete", r>>

\* Mutant: the trampoline stores the return value without looking at arg.
CallbackAlwaysWrites(res, c) == res[1] = "Ok"

\* Mutant: the trampoline stores a completion whatever the closure returned.
CallbackWritesOnErr(res, c) == c.arg # Null

\* if let Ok(r) = fnc(..) { if !ctx.arg.is_null() { .. } }
CallbackShouldWrite(res, c) == res[1] = "Ok" /\ c.arg # Null

\* Lines 193-197: move the return value into resume's argument variable.
CallbackWriteResult ==
    /\ running = "child"
    /\ cpc = "cb_ret"
    /\ IF CallbackShouldWrite(ret, ctx)
       THEN WriteArg(CompleteValue(ret[2]))
       ELSE UNCHANGED <<writes, arg, running>>
    /\ cpc' = "cb_jump"
    /\ UNCHANGED <<ppc, cor, ctx, initslot, sp, fnc, sliceBy, dropKind,
                   stackWritten, argAddr, resumes, results, slices, yieldLog>>
    /\ UNCHANGED <<newVars, closureVars>>

\* Line 200: jump_into(ctx.parent.as_mut_ptr()); the child is abandoned.
CallbackJumpInto ==
    /\ running = "child"
    /\ cpc = "cb_jump"
    /\ ctx' = [ctx EXCEPT !.parent = Consumed(ctx.parent)]
    /\ cpc' = "dead"
    /\ slices' = Append(slices, [by |-> sliceBy, end |-> ret])
    /\ EnterParent(ctx.parent)
    /\ UNCHANGED <<cor, initslot, sp, fnc, sliceBy, dropKind, stackWritten,
                   yieldLog, writes>>
    /\ UNCHANGED <<newVars, resumeVars, closureVars>>

(* ----------------------------- the closure ---------------------------- *)
\* The closure body between two yields: call the next yield, or return.
ClosureStep ==
    /\ running = "child"
    /\ cpc = "closure"
    /\ IF k < Len(fnc.ys)
       THEN /\ yarg' = fnc.ys[k + 1]
            /\ cpc' = "yield_check"
            /\ ret' = ret
       ELSE /\ ret' = fnc.ret
            /\ cpc' = "cb_ret"
            /\ yarg' = yarg
    /\ UNCHANGED <<running, ppc, k, cor, ctx, initslot, sp, fnc, sliceBy,
                   dropKind, stackWritten, yret, cancelled, closureCalls>>
    /\ UNCHANGED <<newVars, resumeVars, histVars>>

\* The closure's handling of what yield returned: `?` / the match of
\* tests::cancel.
ClosureAfterYield ==
    /\ running = "child"
    /\ cpc = "closure_yret"
    /\ IF yret = "Err" /\ fnc.onCancel = "propagate"
       THEN /\ cancelled' = TRUE
            /\ ret' = Canceled
            /\ cpc' = "cb_ret"
            /\ k' = k
       ELSE /\ k' = k + 1
            /\ cpc' = "closure"
            /\ UNCHANGED <<cancelled, ret>>
    /\ UNCHANGED <<running, ppc, cor, ctx, initslot, sp, fnc, sliceBy,
                   dropKind, stackWritten, yarg, yret, closureCalls>>
    /\ UNCHANGED <<newVars, resumeVars, histVars>>

(* --------------------------- Control::yield --------------------------- *)
\* Mutant: yield does not look at arg on entry.
YieldNeverCanceledOnEntry(c) == FALSE

\* if self.0.arg.is_null() (line 267)
YieldCanceledOnEntry(c) == c.arg = Null

\* Mutant: yield does not look at arg after the swap.
YieldNeverCanceledOnReturn(c) == FALSE

\* if self.0.arg.is_null() (line 280)
YieldCanceledOnReturn(c) == c.arg = Null

\* Mutant: yield stores a fixed value instead of its argument.
YieldedValueFixed(v) == <<"Yielded", 1>>

\* GeneratorState::Yielded(arg)
YieldedValue(v) == <<"Yielded", v>>

YieldReturned(r, at) ==
    /\ yret' = r
    /\ yieldLog' = Append(yieldLog, [v |-> yarg, ret |-> r, at |-> at, by |-> sliceBy])
    /\ cpc' = "closure_yret"

\* Lines 267-269.
YieldCheck ==
    /\ running = "child"
    /\ cpc = "yield_check"
    /\ IF YieldCanceledOnEntry(ctx)
       THEN YieldReturned("Err", "entry")
       ELSE /\ cpc' = "yield_write"
            /\ UNCHANGED <<yret, yieldLog>>
    /\ UNCHANGED <<running, ppc, k, cor, ctx, initslot, sp, fnc, sliceBy,
                   dropKind, stackWritten, yarg, ret, cancelled, closureCalls,
                   slices, writes>>
    /\ UNCHANGED <<newVars, resumeVars>>

\* Line 273: *self.0.arg = GeneratorState::Yielded(arg)
YieldWrite ==
    /\ running = "child"
    /\ cpc = "yield_write"
    /\ WriteArg(YieldedValue(yarg))
    /\ cpc' = "yield_swap"
    /\ UNCHANGED <<ppc, cor, ctx, initslot, sp, fnc, sliceBy, dropKind,
                   stackWritten, argAddr, resumes, results, slices, yieldLog>>
    /\ UNCHANGED <<newVars, closureVars>>

\* Mutant: yield stores its value but does not switch to the parent.
YieldNoSwap ==
    /\ running = "child"
    /\ cpc = "yield_swap"
    /\ cpc' = "yield_post"
    /\ UNCHANGED <<running, ppc, cor, ctx, initslot, sp, fnc, sliceBy,
                   dropKind, stackWritten>>
    /\ UNCHANGED <<newVars, resumeVars, closureVars, histVars>>

\* Mutant: yield leaves for the parent without saving its own position.
YieldSwapNoSave ==
    /\ running = "child"
    /\ cpc = "yield_swap"
    /\ ctx' = [ctx EXCEPT !.parent = Consumed(ctx.parent)]
    /\ slices' = Append(slices, [by |-> sliceBy, end |-> <<"Yield", yarg>>])
    /\ EnterParent(ctx.parent)
    /\ UNCHANGED <<cpc, cor, initslot, sp, fnc, sliceBy, dropKind, stackWritten,
                   yieldLog, writes>>
    /\ UNCHANGED <<newVars, resumeVars, closureVars>>

\* Line 276: jump_swap(self.0.child, self.0.parent)
YieldSwap ==
    /\ running = "child"
    /\ cpc = "yield_swap"
    /\ ctx' = [ctx EXCEPT !.child = Saved("yield_post", k),
                          !.parent = Consumed(ctx.parent)]
    /\ slices' = Append(slices, [by |-> sliceBy, end |-> <<"Yield", yarg>>])
    /\ EnterParent(ctx.parent)
    /\ UNCHANGED <<cpc, cor, initslot, sp, fnc, sliceBy, dropKind, stackWritten,
                   yieldLog, writes>>
    /\ UNCHANGED <<newVars, resumeVars, closureVars>>

\* Lines 280-285.
YieldPost ==
    /\ running = "child"
    /\ cpc = "yield_post"
    /\ IF YieldCanceledOnReturn(ctx)
       THEN YieldReturned("Err", "return")
       ELSE YieldReturned("Ok", "return")
    /\ UNCHANGED <<running, ppc, k, cor, ctx, initslot, sp, fnc, sliceBy,
                   dropKind, stackWritten, yarg, ret, cancelled, closureCalls,
                   slices, writes>>
    /\ UNCHANGED <<newVars, resumeVars>>

(* -------------------------- Generator::resume ------------------------- *)
\* Mutant: resume does not check the handle.
ResumeNeverPanics(c) == FALSE

\* match self.0 { None => panic!(..), .. }
ResumePanics(c) == c = "None"

\* Mutant: resume stores null instead of the address of arg.
ArgPointerNull(addr) == Null

\* p.arg = &mut arg
ArgPointer(addr) == addr

\* Mutant: resume leaves the pointer in place after the swap.
ResumeKeptArg(addr) == addr

\* p.arg = null_mut()
ResumeClearedArg(addr) == Null

\* Mutant: resume never recognises completion.
ResumeNeverComplete(a) == FALSE

\* if let GeneratorState::Complete(r) = arg
ResumeIsComplete(a) == a[1] = "Complete"

\* Lines 303-306: allocate the transfer slot; panic on a finished handle.
ResumeEnter ==
    /\ running = "parent"
    /\ ppc = "idle"
    /\ resumes < MaxResumes
    /\ resumes' = resumes + 1
    /\ arg' = Uninit
    /\ IF ResumePanics(cor)
       THEN ppc' = "panicked" /\ argAddr' = Null
       ELSE ppc' = "resume_set" /\ argAddr' = resumes + 1
    /\ UNCHANGED <<running, cpc, cor, ctx, initslot, sp, fnc, sliceBy,
                   dropKind, stackWritten, results>>
    /\ UNCHANGED <<newVars, closureVars, histVars>>

\* Line 309.
ResumeSetArg ==
    /\ running = "parent"
    /\ ppc = "resume_set"
    /\ ctx' = [ctx EXCEPT !.arg = ArgPointer(argAddr)]
    /\ ppc' = "resume_swap"
    /\ UNCHANGED <<running, cpc, cor, initslot, sp, fnc, sliceBy, dropKind,
                   stackWritten>>
    /\ UNCHANGED <<newVars, resumeVars, closureVars, histVars>>

\* Line 312: jump_swap(p.parent, p.child)
ResumeSwap ==
    /\ running = "parent"
    /\ ppc = "resume_swap"
    /\ ctx' = [ctx EXCEPT !.parent = Saved("resume_clear", 0),
                          !.child = Consumed(ctx.child)]
    /\ sliceBy' = "resume"
    /\ EnterChild(ctx.child)
    /\ UNCHANGED <<ppc, cor, initslot, sp, fnc, dropKind, stackWritten,
                   yarg, yret, ret, cancelled, closureCalls>>
    /\ UNCHANGED <<newVars, resumeVars, histVars>>

\* Line 315.
ResumeClear ==
    /\ running = "parent"
    /\ ppc = "resume_clear"
    /\ ctx' = [ctx EXCEPT !.arg = ResumeClearedArg(argAddr)]
    /\ ppc' = "resume_inspect"
    /\ UNCHANGED <<running, cpc, cor, initslot, sp, fnc, sliceBy, dropKind,
                   stackWritten>>
    /\ UNCHANGED <<newVars, resumeVars, closureVars, histVars>>

\* What reading the local `arg` gives: its content, or, when nothing was
\* stored in it, whatever the uninitialised memory holds.
ReadArg(a) == IF a = Uninit THEN GeneratorState ELSE {a}

\* Lines 321-326.
ResumeInspect ==
    /\ running = "parent"
    /\ ppc = "resume_inspect"
    /\ \E v \in ReadArg(arg) :
          /\ cor' = IF ResumeIsComplete(v) THEN "None" ELSE cor
          /\ results' = Append(results, v)
    /\ arg' = Uninit
    /\ argAddr' = Null
    /\ ppc' = "idle"
    /\ UNCHANGED <<running, cpc, ctx, initslot, sp, fnc, sliceBy, dropKind,
                   stackWritten, resumes>>
    /\ UNCHANGED <<newVars, closureVars, histVars>>

(* --------------------------- Drop for Coroutine ----------------------- *)
\* Mutant: drop never resumes the child.
DropNeverTakes(c) == FALSE

\* if let Some(x) = self.0.take()
DropTakes(c) == c = "Some"

\* The state the handle is in when it is dropped.
HandleState ==
    IF cor = "None" THEN "terminated"
    ELSE IF ~ctx.child.live THEN "dead"
    ELSE IF ctx.child.pc = "cb_call" THEN "fresh"
    ELSE "suspended"

\* Line 334.
DropEnter ==
    /\ running = "parent"
    /\ ppc = "idle"
    /\ dropKind' = HandleState
    /\ cor' = "None"
    /\ ppc' = IF DropTakes(cor) THEN "drop_swap" ELSE "dropped"
    /\ UNCHANGED <<running, cpc, ctx, initslot, sp, fnc, sliceBy,
                   stackWritten>>
    /\ UNCHANGED <<newVars, resumeVars, closureVars, histVars>>

\* Line 336: jump_swap(x.parent, x.child)
DropSwap ==
    /\ running = "parent"
    /\ ppc = "drop_swap"
    /\ ctx' = [ctx EXCEPT !.parent = Saved("drop_ret", 0),
                          !.child = Consumed(ctx.child)]
    /\ sliceBy' = "drop"
    /\ EnterChild(ctx.child)
    /\ UNCHANGED <<ppc, cor, initslot, sp, fnc, dropKind, stackWritten,
                   yarg, yret, ret, cancelled, closureCalls>>
    /\ UNCHANGED <<newVars, resumeVars, histVars>>

\* Lines 337-339: drop returns.
DropReturn ==
    /\ running = "parent"
    /\ ppc = "drop_ret"
    /\ ppc' = "dropped"
    /\ UNCHANGED <<running, cpc, cor, ctx, initslot, sp, fnc, sliceBy,
                   dropKind, stackWritten>>
    /\ UNCHANGED <<newVars, resumeVars, closureVars, histVars>>

Next ==
    \/ NewCall
    \/ NewTop
    \/ JumpInit
    \/ CallbackPublish
    \/ CallbackHandback
    \/ NewStore
    \/ ResumeEnter
    \/ ResumeSetArg
    \/ ResumeSwap
    \/ ResumeClear
    \/ ResumeInspect
    \/ DropEnter
    \/ DropSwap
    \/ DropReturn
    \/ CallbackCall
    \/ ClosureStep
    \/ YieldCheck
    \/ YieldWrite
    \/ YieldSwap
    \/ YieldPost
    \/ ClosureAfterYield
    \/ CallbackWriteResult
    \/ CallbackJumpInto

Spec == Init /\ [][Next]_vars

(* ============================== claims ================================ *)
ClosureCode == {"closure", "closure_yret"}
InNew == stack # NoStack
Terminated ==
    cor = "None" /\ \E i \in 1..Len(results) : results[i][1] = "Complete"
DropDone == ppc \in {"drop_ret", "dropped"}

\* C1: with a parent that only calls resume, the k-th resume returns
\* Yielded(yk) for the k-th value the closure yields (nothing lost,
\* duplicated, reordered or altered), and a yield resumed by a resume
\* returns Ok.
C1_RoundTrip ==
    dropKind = "none" =>
        /\ \A i \in 1..Len(results) :
              i <= Len(fnc.ys) => results[i] = <<"Yielded", fnc.ys[i]>>
        /\ \A j \in 1..Len(yieldLog) :
              yieldLog[j].by = "resume" /\ yieldLog[j].at = "return"
                 => yieldLog[j].ret = "Ok"

C1_Witness ==
    /\ dropKind = "none"
    /\ Len(fnc.ys) = 2
    /\ fnc.ys[1] # fnc.ys[2]
    /\ Len(results) = 2
    /\ \E j \in 1..Len(yieldLog) : yieldLog[j].ret = "Ok"

\* C2: when the closure returns Ok(Finished(r)) during a resume, that resume
\* returns Complete(r), and on its return the handle holds None.
C2_Completion ==
    \A i \in 1..Len(results) :
        slices[i].by = "resume" /\ slices[i].end[1] = "Ok"
           => results[i] = <<"Complete", slices[i].end[2]>> /\ cor = "None"

C2_Witness ==
    /\ Len(results) = 2
    /\ results[1][1] = "Yielded"
    /\ slices[2].end[1] = "Ok"
    /\ ppc = "idle"

\* C3: once a resume has returned Complete the handle stays None; a later
\* resume panics and a later drop returns at once, and no step switches
\* into the child, changes the Context or runs the child.
C3_StaysTerminated ==
    [][Terminated =>
         /\ cor' = "None"
         /\ ctx' = ctx
         /\ cpc' = cpc
         /\ k' = k
         /\ closureCalls' = closureCalls
         /\ running' = "parent"
         /\ ppc = "idle" => ppc' \in {"panicked", "dropped"}]_vars

C3_Witness == Terminated /\ ppc = "panicked"

\* C4: a drop of a suspended coroutine enters the child with Context.arg
\* null, and the yield the child was suspended at returns Err(Canceled),
\* never Ok.
C4_CancelOnDrop ==
    /\ sliceBy = "drop" => ctx.arg = Null
    /\ \A j \in 1..Len(yieldLog) :
          yieldLog[j].by = "drop" => yieldLog[j].ret = "Err"
    /\ dropKind = "suspended" /\ DropDone =>
          \E j \in 1..Len(yieldLog) :
              /\ yieldLog[j].by = "drop"
              /\ yieldLog[j].at = "return"
              /\ yieldLog[j].ret = "Err"

C4_Witness == dropKind = "suspended" /\ ppc = "dropped"

\* C5: when the drop of a suspended coroutine returns, the closure has run
\* to its end (its cancel branch has set the flag), the trampoline has made
\* its final jump, and the child does not run again.
C5_CleanupOnDrop ==
    dropKind = "suspended" /\ DropDone =>
        /\ running = "parent"
        /\ cpc = "dead"
        /\ slices[Len(slices)].by = "drop"
        /\ slices[Len(slices)].end[1] \in {"Ok", "Err"}
        /\ fnc.onCancel = "propagate" => cancelled

C5_Witness ==
    dropKind = "suspended" /\ ppc = "dropped" /\ cancelled /\ cpc = "dead"

\* C6: a drop of a fresh coroutine runs the closure exactly once with
\* Context.arg null: every yield returns Err(Canceled), nothing is written
\* for the parent, and drop returns whatever the closure returns.
C6_FreshDrop ==
    dropKind = "fresh" =>
        /\ running # "crashed"
        /\ closureCalls <= 1
        /\ ctx.arg = Null
        /\ writes = <<>>
        /\ results = <<>>
        /\ \A j \in 1..Len(yieldLog) : yieldLog[j].ret = "Err"
        /\ DropDone =>
              /\ closureCalls = 1
              /\ cpc = "dead"
              /\ running = "parent"
              /\ slices = <<[by |-> "drop", end |->
                    IF yieldLog # <<>> /\ fnc.onCancel = "propagate"
                    THEN Canceled ELSE fnc.ret]>>

C6_Witness ==
    /\ dropKind = "fresh"
    /\ ppc = "dropped"
    /\ yieldLog # <<>>
    /\ slices[1].end[1] = "Ok"

C8_AlignedTop ==
    ppc = "new_init" =>
        LET t == stack.base + stack.len
        IN  /\ top % 16 = 0
            /\ top = t - (t % 16)
            /\ top > t - 16
            /\ top <= t

\* C9: Context.arg is null whenever the parent runs outside resume and all
\* through drop; resume sets it right before its swap and clears it right
\* after, and it is non-null nowhere else.
C9_ArgNullOutsideResume ==
    /\ running = "parent" /\ ppc \notin {"resume_swap", "resume_clear"}
          => ctx.arg = Null
    /\ ppc \in {"drop_swap", "drop_ret", "dropped"} => ctx.arg = Null
    /\ ppc = "resume_swap" /\ running = "parent"
          => ctx.arg = argAddr /\ argAddr # Null
    /\ ppc = "resume_inspect" => ctx.arg = Null

C9_Witness ==
    ppc = "idle" /\ Len(results) = 2 /\ cor = "Some" /\ ctx.arg = Null

\* C10 as stated: whenever the child runs closure code after a yield has
\* returned, Context.arg is null.
C10_ArgNullInChild ==
    running = "child" /\ cpc \in ClosureCode /\ yieldLog # <<>>
        => ctx.arg = Null

\* C10 as amended: whenever the child runs closure code after a yield has
\* returned, Context.arg is null if the slice was started by drop, and is
\* the address of the running resume's transfer slot if it was started by
\* resume.
C10_ArgInChild ==
    running = "child" /\ cpc \in ClosureCode /\ yieldLog # <<>> =>
        /\ sliceBy \in {"resume", "drop"}
        /\ sliceBy = "drop" => ctx.arg = Null
        /\ sliceBy = "resume" => ctx.arg # Null /\ ctx.arg = argAddr

C10_Witness ==
    /\ running = "child"
    /\ cpc = "closure"
    /\ sliceBy = "resume"
    /\ yieldLog # <<>>
    /\ ctx.arg # Null

\* The closure has returned and the trampoline has made its final jump.
ChildFinished == \E i \in 1..Len(slices) : slices[i].end[1] \in {"Ok", "Err"}
NewPcs == {"start", "new_top", "new_init", "new_store"}

\* C11 as stated: from the start of Coroutine::new until the child's final
\* jump exactly one side runs, and the other side's saved state is in its
\* own half of the Context (Context.parent while the child runs,
\* Context.child while the parent runs).
C11_OtherSideInContext ==
    cpc # "none" /\ ~ChildFinished /\ running # "crashed" =>
        /\ running = "child" => ctx.parent.live
        /\ running = "parent" => ctx.child.live

\* C11 as amended: from the return of Coroutine::new until the child's
\* final jump exactly one side runs and the other side's saved state is in
\* its own half of the Context; while the trampoline runs inside
\* Coroutine::new the parent's saved state is in the save slot jump_init
\* passes as `p`, and Context.parent holds nothing.
C11_OtherSideSaved ==
    /\ ppc \notin NewPcs /\ ppc # "panicked" /\ ~ChildFinished =>
          /\ running \in {"parent", "child"}
          /\ running = "child" => ctx.parent.live /\ ~ctx.child.live
          /\ running = "parent" => ctx.child.live
    /\ running = "child" /\ ppc \in NewPcs =>
          /\ initslot.live
          /\ ~ctx.parent.live

C11_Witness ==
    /\ running = "child"
    /\ cpc = "closure"
    /\ sliceBy = "resume"
    /\ Len(slices) = 1
    /\ ctx.parent.live
    /\ ctx.parent.pc = "resume_clear"

\* C12: every store through Context.arg (Yielded in yield, Complete in the
\* trampoline) goes to the transfer slot of the resume call that is running:
\* never through null, never to the slot of a resume that has returned.
C12_WritesInsideResume ==
    \A i \in 1..Len(writes) :
        /\ writes[i].ptr # Null
        /\ writes[i].ptr = writes[i].live

C12_Witness ==
    /\ Len(writes) = 2
    /\ writes[1].val[1] = "Yielded"
    /\ writes[2].val[1] = "Complete"
    /\ writes[2].ptr = 2

\* C13: a yield entered with Context.arg null returns Err(Canceled) at once:
\* no store through arg, no switch to the parent, Context unchanged.
C13_YieldOnNullArg ==
    [][running = "child" /\ cpc = "yield_check" /\ ctx.arg = Null =>
         /\ yret' = "Err"
         /\ cpc' = "closure_yret"
         /\ running' = "child"
         /\ ctx' = ctx
         /\ writes' = writes
         /\ arg' = arg
         /\ slices' = slices
         /\ ppc' = ppc]_vars

C13_Witness ==
    \E j \in 1..Len(yieldLog) :
        yieldLog[j].at = "entry" /\ yieldLog[j].ret = "Err"

\* C14: when the closure returns Ok(Finished(r)) with Context.arg null (the
\* coroutine was dropped, fresh or suspended), the trampoline drops r,
\* stores nothing and still jumps into Context.parent, so drop returns.
C14_FinishedAfterDrop ==
    [][running = "child" /\ ret[1] = "Ok" /\ ctx.arg = Null =>
         /\ cpc = "cb_ret" =>
               /\ cpc' = "cb_jump"
               /\ writes' = writes
               /\ arg' = arg
               /\ ctx' = ctx
               /\ running' = "child"
         /\ cpc = "cb_jump" =>
               /\ cpc' = "dead"
               /\ running' = "parent"
               /\ ppc' = "drop_ret"
               /\ writes' = writes
               /\ results' = results]_vars

C14_Witness ==
    /\ ppc = "dropped"
    /\ dropKind = "suspended"
    /\ slices[Len(slices)].end[1] = "Ok"
    /\ Len(writes) = 1

\* C15: when the closure returns Err(Canceled) during a resume, the
\* trampoline stores nothing and jumps to the parent: resume comes back
\* with a transfer slot the child never wrote during that call.
C15_ErrLeavesSlotUnwritten ==
    /\ running = "child" /\ cpc = "cb_jump" /\ sliceBy = "resume"
          /\ ret = Canceled => arg = Uninit /\ ctx.arg = argAddr
    /\ ppc \in {"resume_clear", "resume_inspect"} /\ running = "parent"
          /\ slices[Len(slices)].end = Canceled =>
              /\ arg = Uninit
              /\ \A i \in 1..Len(writes) : writes[i].ptr # argAddr

C15_Witness ==
    /\ ppc = "resume_inspect"
    /\ slices # <<>>
    /\ slices[Len(slices)].end = Canceled
    /\ arg = Uninit
    /\ Len(results) = 1

\* The parent's positions at which it is suspended in a switch.
SwitchPcs == {"new_init", "resume_swap", "drop_swap"}

\* One child slice per resume call, and at most one store (one yield or one
\* completion) per slice.
SlicesAlternate ==
    /\ running = "child" => ppc \in SwitchPcs
    /\ ppc \in {"idle", "resume_set", "resume_swap"} =>
          Len(slices) = Len(results)
    /\ ppc \in {"resume_clear", "resume_inspect"} =>
          Len(slices) = Len(results) + 1
    /\ running = "parent" => Len(writes) <= Len(slices)
    /\ running = "child" => Len(writes) <= Len(slices) + 1

\* A step of one side leaves the other side where it is, and the child
\* gets the processor only from a switch of the parent, at the position
\* its Context.child slot holds.
StepsAlternate ==
    /\ running = "parent" /\ running' = "parent" =>
          UNCHANGED <<cpc, k, yarg, yret, ret, cancelled, closureCalls,
                      yieldLog, slices, writes>>
    /\ running = "child" /\ running' = "child" =>
          UNCHANGED <<ppc, results, resumes, argAddr, dropKind, slices>>
    /\ running = "parent" /\ running' = "child" =>
          /\ ppc \in SwitchPcs
          /\ ppc' = ppc
          /\ ppc # "new_init" => cpc' = ctx.child.pc
    /\ running = "child" /\ running' = "parent" =>
          /\ cpc \in {"cb_handback", "yield_swap", "cb_jump"}
          /\ Len(slices') = Len(slices) + (IF cpc = "cb_handback" THEN 0 ELSE 1)
          /\ ppc' \in {"new_store", "resume_clear", "drop_ret"}

\* C16: parent and child strictly alternate: during one resume call the
\* child runs exactly one slice, from its last suspension point to one
\* yield or to the closure's return, and the parent runs nothing meanwhile;
\* after a yield has switched to the parent the child runs nothing until
\* the next resume or drop.
C16_StrictAlternation == [] SlicesAlternate /\ [][StepsAlternate]_vars

C16_Witness ==
    /\ ppc = "idle"
    /\ Len(results) = 3
    /\ Len(slices) = 3
    /\ slices[1].end[1] = "Yield"
    /\ slices[2].end[1] = "Yield"
    /\ slices[3].end[1] = "Ok"

Progress ==
    \/ NewTop
    \/ JumpInit
    \/ CallbackPublish
    \/ CallbackHandback
    \/ NewStore
    \/ ResumeSetArg
    \/ ResumeSwap
    \/ ResumeClear
    \/ ResumeInspect
    \/ DropSwap
    \/ DropReturn
    \/ CallbackCall
    \/ ClosureStep
    \/ YieldCheck
    \/ YieldWrite
    \/ YieldSwap
    \/ YieldPost
    \/ ClosureAfterYield
    \/ CallbackWriteResult
    \/ CallbackJumpInto

\* The running side keeps executing: a single thread, no preemption, and a
\* closure whose slices are finite.
FairSpec == Init /\ [][Next]_vars /\ WF_vars(Progress)

\* C18: with finite slices, every resume of a handle that is not
\* terminated (it holds Some, so resume does not panic) returns to the
\* parent, and every drop of a fresh or suspended coroutine returns.
C18_CallsReturn ==
    /\ (ppc = "resume_set") ~> (ppc = "idle")
    /\ (ppc = "drop_swap" /\ running = "parent" /\ ctx.child.live)
          ~> (ppc = "dropped")

\* The part of C18 that holds: calls return when the child's saved context
\* is unused, that is, when the child is really fresh or suspended.
LiveCallsReturn ==
    /\ (ppc = "resume_set" /\ ctx.child.live) ~> (ppc = "idle")
    /\ (ppc = "drop_swap" /\ running = "parent" /\ ctx.child.live)
          ~> (ppc = "dropped")

\* C19: whenever the parent runs user code outside new, resume and drop,
\* the handle holds Some exactly if the child has not made the trampoline's
\* final jump.
C19_HandleMatchesChild ==
    ppc \in {"idle", "dropped"} => (cor = "Some" <=> ~ChildFinished)

\* C20: contexts are one-shot: every switch targets a slot saved by the
\* target's latest suspension and not entered since, so resume and drop
\* never switch into a child whose closure has returned, and the closure
\* is invoked at most once.
C20_OneShotContexts ==
    /\ running = "parent" /\ ppc \in {"resume_swap", "drop_swap"} =>
          ctx.child.live /\ ~ChildFinished
    /\ running = "child" /\ cpc \in {"yield_swap", "cb_jump"} =>
          ctx.parent.live
    /\ running = "child" /\ cpc = "cb_handback" => initslot.live
    /\ closureCalls <= 1
====
